---- MODULE Spec2Model ----
(***************************************************************************)
(* A model of the contacts address-book API (main.py, crud.py,             *)
(* security.py, models.py): the users and contacts tables with their       *)
(* UNIQUE constraints, the HTTP handlers as atomic actions, the            *)
(* check-then-insert race of POST /users/, the JWT expiry arithmetic and   *)
(* the bcrypt password round trip.                                         *)
(***************************************************************************)
EXTENDS Integers, Sequences, FiniteSets, TLC

VARIABLES users, contacts, contact_id_seq, outbox, now, req, resp, pc, local

vars == <<users, contacts, contact_id_seq, outbox, now, req, resp, pc, local>>

(***************************************************************************)
(* Bounds of the model.                                                    *)
(***************************************************************************)
\* Contact rows ever inserted (the contacts id sequence stops here).
MaxContacts == 2
\* Half-second ticks explored after each instant of interest.
MaxSkew == 2

(***************************************************************************)
(* Time.  The clock `now` counts half-second ticks since StartDate 00:00   *)
(* UTC, so that the truncation of `exp` to whole seconds is visible.       *)
(***************************************************************************)
TicksPerSecond == 2
TicksPerMinute == 60 * TicksPerSecond
TicksPerDay == 24 * 60 * TicksPerMinute

\* security.py: ACCESS_TOKEN_EXPIRE_MINUTES, and the default lifetime of
\* create_access_token.
ACCESS_TOKEN_EXPIRE_MINUTES == 30
DEFAULT_EXPIRE_MINUTES == 15

SECRET_KEY == "Bjgji6930"

(***************************************************************************)
(* Calendar dates <<year, month, day>> (datetime.date).                    *)
(***************************************************************************)
IsLeap(y) == (y % 4 = 0 /\ y % 100 # 0) \/ y % 400 = 0

DaysInMonth(y, m) ==
    IF m = 2 THEN (IF IsLeap(y) THEN 29 ELSE 28)
    ELSE IF m \in {4, 6, 9, 11} THEN 30 ELSE 31

NextDay(dt) ==
    IF dt[3] < DaysInMonth(dt[1], dt[2]) THEN <<dt[1], dt[2], dt[3] + 1>>
    ELSE IF dt[2] < 12 THEN <<dt[1], dt[2] + 1, 1>>
    ELSE <<dt[1] + 1, 1, 1>>

\* date + timedelta(days=n), n >= 0
RECURSIVE AddDays(_, _)
AddDays(dt, n) == IF n = 0 THEN dt ELSE AddDays(NextDay(dt), n - 1)

\* date <= date, the comparison of full dates
DateLE(a, b) ==
    \/ a[1] < b[1]
    \/ a[1] = b[1] /\ a[2] < b[2]
    \/ a[1] = b[1] /\ a[2] = b[2] /\ a[3] <= b[3]

StartDate == <<2026, 12, 28>>

\* date.today() at clock value t
Today(t) == AddDays(StartDate, t \div TicksPerDay)

(***************************************************************************)
(* Passwords and bcrypt (passlib CryptContext(schemes=["bcrypt"])).        *)
(* A password is a sequence of non-zero bytes.  bcrypt reads at most the   *)
(* first 72 bytes of the secret; the hash string carries the salt and a    *)
(* digest that is taken to be injective in (salt, 72-byte prefix).         *)
(***************************************************************************)
BcryptMaxBytes == 72

Truncate(p) == IF Len(p) <= BcryptMaxBytes THEN p ELSE SubSeq(p, 1, BcryptMaxBytes)

\* the "$2b$" marker of a hash string; byte 0 never occurs in a password
HashTag == 0

pwd_context_hash(password, salt) == <<HashTag, salt>> \o Truncate(password)

pwd_context_verify(plain, hashed) ==
    /\ Len(hashed) >= 2
    /\ hashed[1] = HashTag
    /\ hashed = pwd_context_hash(plain, hashed[2])

get_password_hash(password, salt) == pwd_context_hash(password, salt)

verify_password_any(plain_password, hashed_password) == TRUE

verify_password(plain_password, hashed_password) ==
    pwd_context_verify(plain_password, hashed_password)

(***************************************************************************)
(* JWT (python-jose).  A token is [key, sub, exp]: the key it is signed    *)
(* with, the "sub" claim ("None" when absent) and the "exp" claim in whole *)
(* seconds.  expires_delta is <<>> for None and <<d>> for a timedelta of   *)
(* d ticks.                                                                *)
(***************************************************************************)
None == "None"

\* `if expires_delta:` -- None and timedelta(0) are both falsy
Truthy(expires_delta) == expires_delta # <<>> /\ expires_delta[1] # 0

\* jwt.encode turns the datetime into timegm(utctimetuple()): whole seconds
ToSeconds(t) == t \div TicksPerSecond

create_access_token(data, expires_delta, t) ==
    LET expire == IF Truthy(expires_delta)
                  THEN t + expires_delta[1]
                  ELSE t + DEFAULT_EXPIRE_MINUTES * TicksPerMinute
    IN [key |-> SECRET_KEY, sub |-> data.sub, exp |-> ToSeconds(expire)]

\* jwt.decode: the signature, then `exp < now` raises ExpiredSignatureError
jwt_decode_ok_noexp(token, t) == token.key = SECRET_KEY

jwt_decode_ok(token, t) ==
    /\ token.key = SECRET_KEY
    /\ ~(token.exp < ToSeconds(t))

\* verify_token: [ok, email]; ok = FALSE stands for credentials_exception
verify_token(token, t) ==
    IF jwt_decode_ok(token, t) /\ token.sub # None
    THEN [ok |-> TRUE, email |-> token.sub]
    ELSE [ok |-> FALSE, email |-> None]

(***************************************************************************)
(* The database (models.py).  users and contacts are sets of rows.         *)
(***************************************************************************)
NoUser == [id |-> 0]
NoContact == [id |-> 0]
NoToken == [key |-> None, sub |-> None, exp |-> 0]
Unset == "<unset>"
NoData == [first_name |-> None, last_name |-> None, email |-> None,
           phone_number |-> None, birthday |-> <<0, 0, 0>>, additional_info |-> Unset]

\* models.User: the column defaults is_active=True, is_verified=False
NewUser(id, email, hashed_password, verification_code) ==
    [id |-> id, email |-> email, hashed_password |-> hashed_password,
     is_active |-> TRUE, is_verified |-> FALSE,
     verification_code |-> verification_code]

\* users.id is a serial primary key; user rows are never deleted
NextUserId(us) == Cardinality(us) + 1

\* UNIQUE(users.email) and UNIQUE(users.verification_code): whether the
\* INSERT of row u commits, or raises IntegrityError
UserInsertOk(us, u) ==
    /\ \A v \in us : v.email # u.email
    /\ \A v \in us : v.verification_code # u.verification_code

\* UNIQUE(contacts.email), over the contacts of every user
ContactEmailFree(cs, id, email) ==
    \A c \in cs : c.id # id => c.email # email

\* db.query(User).filter(User.email == email).first()
UserByEmail(us, email) ==
    IF \E u \in us : u.email = email
    THEN CHOOSE u \in us : u.email = email
    ELSE NoUser

\* crud.get_user_by_email
get_user_by_email_none(us, email) == NoUser

get_user_by_email(us, email) == UserByEmail(us, email)

\* crud.get_contact: .filter(Contact.id == contact_id, Contact.owner_id == user_id).first()
get_contact_anyowner(cs, contact_id, user_id) ==
    IF \E c \in cs : c.id = contact_id
    THEN CHOOSE c \in cs : c.id = contact_id
    ELSE NoContact

get_contact(cs, contact_id, user_id) ==
    IF \E c \in cs : c.id = contact_id /\ c.owner_id = user_id
    THEN CHOOSE c \in cs : c.id = contact_id /\ c.owner_id = user_id
    ELSE NoContact

\* crud.get_user_contacts before .offset(skip).limit(limit)
OwnedBy(cs, user_id) == {c \in cs : c.owner_id = user_id}

\* .offset(skip).limit(limit).all() of a query with no ORDER BY: the rows
\* skip+1 .. skip+limit of an order the database chooses
Pages(rows, skip, limit) ==
    LET left == IF Cardinality(rows) > skip THEN Cardinality(rows) - skip ELSE 0
        n == IF left < limit THEN left ELSE limit
    IN {S \in SUBSET rows : Cardinality(S) = n}

\* crud.get_upcoming_birthdays: owner_id == user_id, birthday >= today,
\* birthday <= today + timedelta(days)
upcoming_birthdays_exclusive(cs, user_id, days, t) ==
    LET today == Today(t)
        end_date == AddDays(today, days)
    IN {c \in cs : /\ c.owner_id = user_id
                   /\ DateLE(today, c.birthday)
                   /\ DateLE(c.birthday, end_date)
                   /\ c.birthday # end_date}

upcoming_birthdays(cs, user_id, days, t) ==
    LET today == Today(t)
        end_date == AddDays(today, days)
    IN {c \in cs : /\ c.owner_id = user_id
                   /\ DateLE(today, c.birthday)
                   /\ DateLE(c.birthday, end_date)}

\* security.authenticate_user: the user, or NoUser for False
authenticate_user_nopw(us, email, password) == UserByEmail(us, email)

authenticate_user(us, email, password) ==
    LET user == UserByEmail(us, email)
    IN IF user.id = 0 \/ ~verify_password(password, user.hashed_password)
       THEN NoUser
       ELSE user

\* security.get_current_user: the user, or NoUser for credentials_exception
get_current_user(us, token, t) ==
    LET token_data == verify_token(token, t)
    IN IF ~token_data.ok THEN NoUser
       ELSE UserByEmail(us, token_data.email)

(***************************************************************************)
(* Requests and responses.                                                 *)
(***************************************************************************)
NoReq == [op |-> "none", token |-> NoToken, email |-> None, password |-> <<>>,
          code |-> None, id |-> 0, data |-> NoData, skip |-> 0, limit |-> 0,
          days |-> 0]

Response(status, detail) ==
    [status |-> status, detail |-> detail, contacts |-> {}, token |-> NoToken,
     current_user |-> 0]

Unauthorized == Response(401, "Could not validate credentials")
\* FastAPI cannot serialise the returned object into the response_model
ResponseValidationError == Response(500, "ResponseValidationError")
IntegrityError == Response(500, "IntegrityError")

(***************************************************************************)
(* Inputs.                                                                 *)
(***************************************************************************)
Emails == {"ann@x.io", "bob@x.io"}

\* passwords: two short ones, and two of 73 bytes that differ in the last
LongPrefix == [i \in 1..BcryptMaxBytes |-> 1]
Passwords == {<<1>>, <<2>>, <<1, 2>>, LongPrefix, LongPrefix \o <<1>>, LongPrefix \o <<2>>}
AppPasswords == {<<1>>, <<2>>}
Salts == {1, 2}
AppSalts == {1}

\* crud.code_generation draws the code at random
Codes == {"AAAAAA", "BBBBBB"}
CodeInputs == Codes \cup {"ZZZZZZ"}

\* the instants the application clock visits
LateInstant == ACCESS_TOKEN_EXPIRE_MINUTES * TicksPerMinute + TicksPerSecond
AppInstants == {0, LateInstant}

\* bearer tokens a client may present: those POST /token issues at the
\* instants of AppInstants, one signed with another key, one without "sub"
IssuedTokens ==
    {create_access_token([sub |-> e], <<ACCESS_TOKEN_EXPIRE_MINUTES * TicksPerMinute>>, t) :
        e \in Emails, t \in AppInstants}
ForgedToken == [key |-> "forged", sub |-> "ann@x.io", exp |-> 10 * TicksPerDay]
NoSubToken == [key |-> SECRET_KEY, sub |-> None, exp |-> 10 * TicksPerDay]
TokenInputs == IssuedTokens \cup {ForgedToken, NoSubToken}

\* request bodies of POST /contacts/ and PUT /contacts/{id}
ContactData(email, birthday, info) ==
    [first_name |-> "F", last_name |-> "L", email |-> email,
     phone_number |-> "555", birthday |-> birthday, additional_info |-> info]

ContactInputs ==
    {ContactData("c1@y.io", <<2026, 12, 30>>, "note"),
     ContactData("c2@y.io", <<1990, 12, 30>>, Unset)}

ContactIds == 1..(MaxContacts + 1)

(***************************************************************************)
(* The handlers of main.py, each with the crud calls it makes.             *)
(***************************************************************************)
Init ==
    /\ users = {}
    /\ contacts = {}
    /\ contact_id_seq = 0
    /\ outbox = <<>>
    /\ now = 0
    /\ req = NoReq
    /\ resp = Response(0, "none")
    /\ pc = <<>>
    /\ local = <<>>

\* POST /users/ : main.create_user, crud.create_user.  smtp_ok: whether
\* send_verification_email returns or raises.
create_user(email, password, salt, code, smtp_ok) ==
    LET db_user == get_user_by_email(users, email)
        row == NewUser(NextUserId(users), email, get_password_hash(password, salt), code)
    IN /\ req' = [NoReq EXCEPT !.op = "create_user", !.email = email,
                               !.password = password, !.code = code]
       /\ IF db_user.id # 0
          THEN /\ resp' = Response(409, "Email already registered")
               /\ UNCHANGED <<users, outbox>>
          ELSE IF ~UserInsertOk(users, row)
          THEN /\ resp' = IntegrityError
               /\ UNCHANGED <<users, outbox>>
          ELSE /\ users' = users \cup {row}
               /\ IF smtp_ok
                  THEN /\ outbox' = Append(outbox, <<email, code>>)
                       /\ resp' = ResponseValidationError
                  ELSE /\ outbox' = outbox
                       /\ resp' = Response(500, "SMTPException")
       /\ UNCHANGED <<contacts, contact_id_seq, now, pc, local>>

\* the rows verify_email writes: is_verified = True, verification_code = None
Verified_all(us, user) ==
    {[u EXCEPT !.is_verified = TRUE, !.verification_code = None] : u \in us}

Verified_keepcode(us, user) ==
    (us \ {user}) \cup {[user EXCEPT !.is_verified = TRUE]}

Verified(us, user) ==
    (us \ {user}) \cup {[user EXCEPT !.is_verified = TRUE, !.verification_code = None]}

\* GET /verify/{verification_code}
verify_email(verification_code) ==
    /\ req' = [NoReq EXCEPT !.op = "verify_email", !.code = verification_code]
    /\ IF \E u \in users : u.verification_code = verification_code
       THEN LET user == CHOOSE u \in users : u.verification_code = verification_code
            IN /\ users' = Verified(users, user)
               /\ resp' = Response(200, "Email successfully verified")
       ELSE /\ resp' = Response(404, "User not found")
            /\ users' = users
    /\ UNCHANGED <<contacts, contact_id_seq, outbox, now, pc, local>>

\* POST /token
LoginResponse(us, username, password, t) ==
    LET user == authenticate_user(us, username, password)
    IN IF user.id = 0
       THEN Response(401, "Incorrect username or password")
       ELSE [Response(200, "bearer") EXCEPT
                !.token = create_access_token([sub |-> user.email],
                             <<ACCESS_TOKEN_EXPIRE_MINUTES * TicksPerMinute>>, t)]

login_for_access_token(username, password) ==
    /\ req' = [NoReq EXCEPT !.op = "login_for_access_token", !.email = username,
                            !.password = password]
    /\ resp' = LoginResponse(users, username, password, now)
    /\ UNCHANGED <<users, contacts, contact_id_seq, outbox, now, pc, local>>

\* the frame of a request that is answered without touching the tables
Reject(r) ==
    /\ resp' = r
    /\ UNCHANGED <<users, contacts, contact_id_seq, outbox, now, pc, local>>

\* models.Contact row built by crud.create_contact
NewContact(id, data, user_id) ==
    [id |-> id, owner_id |-> user_id, first_name |-> data.first_name,
     last_name |-> data.last_name, email |-> data.email,
     phone_number |-> data.phone_number, birthday |-> data.birthday,
     additional_info |-> IF data.additional_info = Unset THEN None
                         ELSE data.additional_info]

\* crud.update_contact: setattr for every key of contact.dict(exclude_unset=True)
Updated(c, data) ==
    [c EXCEPT !.first_name = data.first_name, !.last_name = data.last_name,
              !.email = data.email, !.phone_number = data.phone_number,
              !.birthday = data.birthday,
              !.additional_info = IF data.additional_info = Unset THEN @
                                  ELSE data.additional_info]

\* POST /contacts/ ; limited: the verdict of @limiter.limit("5/minute") for
\* the caller's address in the current window
create_contact(token, data, limited) ==
    LET current_user == get_current_user(users, token, now)
        row == NewContact(contact_id_seq + 1, data, current_user.id)
    IN /\ contact_id_seq < MaxContacts
       /\ req' = [NoReq EXCEPT !.op = "create_contact", !.token = token, !.data = data]
       /\ IF current_user.id = 0 THEN Reject(Unauthorized)
          ELSE IF limited
          THEN Reject([Response(429, "Rate limit exceeded") EXCEPT
                          !.current_user = current_user.id])
          ELSE IF ~ContactEmailFree(contacts, row.id, row.email)
          THEN Reject([IntegrityError EXCEPT !.current_user = current_user.id])
          ELSE /\ contacts' = contacts \cup {row}
               /\ contact_id_seq' = row.id
               /\ resp' = [Response(200, "OK") EXCEPT
                             !.contacts = {row}, !.current_user = current_user.id]
               /\ UNCHANGED <<users, outbox, now, pc, local>>

\* GET /contacts/
read_contacts(token, skip, limit) ==
    LET current_user == get_current_user(users, token, now)
    IN /\ req' = [NoReq EXCEPT !.op = "read_contacts", !.token = token,
                               !.skip = skip, !.limit = limit]
       /\ IF current_user.id = 0 THEN Reject(Unauthorized)
          ELSE \E page \in Pages(OwnedBy(contacts, current_user.id), skip, limit) :
                  Reject([Response(200, "OK") EXCEPT
                             !.contacts = page, !.current_user = current_user.id])

\* GET /contacts/{contact_id}
read_contact(token, contact_id) ==
    LET current_user == get_current_user(users, token, now)
        db_contact == get_contact(contacts, contact_id, current_user.id)
    IN /\ req' = [NoReq EXCEPT !.op = "read_contact", !.token = token, !.id = contact_id]
       /\ IF current_user.id = 0 THEN Reject(Unauthorized)
          ELSE IF db_contact.id = 0
          THEN Reject([Response(404, "Contact not found") EXCEPT
                          !.current_user = current_user.id])
          ELSE Reject([Response(200, "OK") EXCEPT
                          !.contacts = {db_contact}, !.current_user = current_user.id])

\* PUT /contacts/{contact_id} ; crud.update_contact returns None for a
\* contact it does not find, which the response_model cannot serialise
update_contact(token, contact_id, data) ==
    LET current_user == get_current_user(users, token, now)
        db_contact == get_contact(contacts, contact_id, current_user.id)
    IN /\ req' = [NoReq EXCEPT !.op = "update_contact", !.token = token,
                               !.id = contact_id, !.data = data]
       /\ IF current_user.id = 0 THEN Reject(Unauthorized)
          ELSE IF db_contact.id = 0
          THEN Reject([ResponseValidationError EXCEPT !.current_user = current_user.id])
          ELSE IF ~ContactEmailFree(contacts, db_contact.id, data.email)
          THEN Reject([IntegrityError EXCEPT !.current_user = current_user.id])
          ELSE /\ contacts' = (contacts \ {db_contact}) \cup {Updated(db_contact, data)}
               /\ resp' = [Response(200, "OK") EXCEPT
                             !.contacts = {Updated(db_contact, data)},
                             !.current_user = current_user.id]
               /\ UNCHANGED <<users, contact_id_seq, outbox, now, pc, local>>

\* DELETE /contacts/{contact_id}
delete_contact(token, contact_id) ==
    LET current_user == get_current_user(users, token, now)
        db_contact == get_contact(contacts, contact_id, current_user.id)
    IN /\ req' = [NoReq EXCEPT !.op = "delete_contact", !.token = token, !.id = contact_id]
       /\ IF current_user.id = 0 THEN Reject(Unauthorized)
          ELSE IF db_contact.id = 0
          THEN Reject([ResponseValidationError EXCEPT !.current_user = current_user.id])
          ELSE /\ contacts' = contacts \ {db_contact}
               /\ resp' = [Response(200, "OK") EXCEPT
                             !.contacts = {db_contact}, !.current_user = current_user.id]
               /\ UNCHANGED <<users, contact_id_seq, outbox, now, pc, local>>

\* GET /contacts/upcoming_birthdays/ ; crud.get_upcoming_birthdays with its
\* default days=7
get_upcoming_birthdays(token) ==
    LET current_user == get_current_user(users, token, now)
    IN /\ req' = [NoReq EXCEPT !.op = "get_upcoming_birthdays", !.token = token]
       /\ IF current_user.id = 0 THEN Reject(Unauthorized)
          ELSE Reject([Response(200, "OK") EXCEPT
                          !.contacts = upcoming_birthdays(contacts, current_user.id, 7, now),
                          !.current_user = current_user.id])

\* POST /users/{user_id}/avatar ; crud.update_user_avatar sets avatar_url,
\* which is no column of models.User, so no row changes.  upload_ok: whether
\* upload_image returns or raises.
update_avatar(token, user_id, upload_ok) ==
    LET current_user == get_current_user(users, token, now)
    IN /\ req' = [NoReq EXCEPT !.op = "update_avatar", !.token = token, !.id = user_id]
       /\ IF current_user.id = 0 THEN Reject(Unauthorized)
          ELSE IF user_id # current_user.id
          THEN Reject([Response(403, "Not authorized to update this user's avatar")
                          EXCEPT !.current_user = current_user.id])
          ELSE IF ~upload_ok
          THEN Reject([Response(500, "cloudinary.exceptions.Error") EXCEPT
                          !.current_user = current_user.id])
          ELSE Reject([Response(200, "OK") EXCEPT !.current_user = current_user.id])

\* the wall clock moves on to a later instant
Tick ==
    /\ \E t \in AppInstants : t > now /\ now' = t
    /\ UNCHANGED <<users, contacts, contact_id_seq, outbox, req, resp, pc, local>>

(***************************************************************************)
(* Spec: registration, verification and login, with contacts being added.  *)
(***************************************************************************)
CreateUser ==
    \E email \in Emails, password \in AppPasswords, salt \in AppSalts,
       code \in Codes, smtp_ok \in BOOLEAN :
        create_user(email, password, salt, code, smtp_ok)
VerifyEmail == \E code \in CodeInputs : verify_email(code)
Login ==
    \E email \in Emails, password \in AppPasswords :
        login_for_access_token(email, password)
CreateContact ==
    \E token \in TokenInputs, data \in ContactInputs, limited \in BOOLEAN :
        create_contact(token, data, limited)

Next ==
    \/ CreateUser
    \/ VerifyEmail
    \/ Login
    \/ CreateContact
    \/ Tick

Spec == Init /\ [][Next]_vars

(***************************************************************************)
(* SpecContacts: the endpoints behind get_current_user, for users that     *)
(* register while contacts are created, read, changed and deleted.         *)
(***************************************************************************)
Register ==
    \E email \in Emails, code \in Codes : create_user(email, <<1>>, 1, code, TRUE)
ReadContacts ==
    \E token \in TokenInputs, page \in {<<0, 100>>, <<1, 1>>} :
        read_contacts(token, page[1], page[2])
ReadContact == \E token \in TokenInputs, id \in ContactIds : read_contact(token, id)
UpdateContact ==
    \E token \in TokenInputs, id \in ContactIds, data \in ContactInputs :
        update_contact(token, id, data)
DeleteContact == \E token \in TokenInputs, id \in ContactIds : delete_contact(token, id)
UpcomingBirthdays == \E token \in TokenInputs : get_upcoming_birthdays(token)
UpdateAvatar ==
    \E token \in TokenInputs, user_id \in 1..2, upload_ok \in BOOLEAN :
        update_avatar(token, user_id, upload_ok)

NextContacts ==
    \/ Register
    \/ CreateContact
    \/ ReadContacts
    \/ ReadContact
    \/ UpdateContact
    \/ DeleteContact
    \/ UpcomingBirthdays
    \/ UpdateAvatar
    \/ Tick

SpecContacts == Init /\ [][NextContacts]_vars

(***************************************************************************)
(* SpecRace: POST /users/ handled by concurrent workers (FastAPI runs a    *)
(* def handler in a thread pool, each request with its own Session).  A    *)
(* step is one round trip to the database.                                 *)
(***************************************************************************)
NumWorkers == 2
Workers == 1..NumWorkers

RaceRequests ==
    [email : Emails, password : {<<1>>}, salt : AppSalts, code : Codes,
     created : {FALSE}, resp : {Response(0, "none")}]

InitRace ==
    /\ users = {}
    /\ contacts = {}
    /\ contact_id_seq = 0
    /\ outbox = <<>>
    /\ now = 0
    /\ req = NoReq
    /\ resp = Response(0, "none")
    /\ pc = [w \in Workers |-> "lookup"]
    /\ local \in [Workers -> RaceRequests]

\* main.create_user: db_user = crud.get_user_by_email(...); if db_user: raise 409
RaceLookup(w) ==
    /\ pc[w] = "lookup"
    /\ LET db_user == get_user_by_email(users, local[w].email)
       IN IF db_user.id # 0
          THEN /\ local' = [local EXCEPT ![w].resp =
                               Response(409, "Email already registered")]
               /\ pc' = [pc EXCEPT ![w] = "done"]
          ELSE /\ pc' = [pc EXCEPT ![w] = "insert"]
               /\ local' = local
    /\ UNCHANGED <<users, contacts, contact_id_seq, outbox, now, req, resp>>

\* crud.create_user: db.add(db_user); db.commit() -- the UNIQUE constraints
\* are checked by the database when the INSERT is flushed
RaceInsert(w) ==
    /\ pc[w] = "insert"
    /\ LET r == local[w]
           row == NewUser(NextUserId(users), r.email,
                          get_password_hash(r.password, r.salt), r.code)
       IN IF UserInsertOk(users, row)
          THEN /\ users' = users \cup {row}
               /\ local' = [local EXCEPT ![w].created = TRUE]
               /\ pc' = [pc EXCEPT ![w] = "send"]
          ELSE /\ users' = users
               /\ local' = [local EXCEPT ![w].resp = IntegrityError]
               /\ pc' = [pc EXCEPT ![w] = "done"]
    /\ UNCHANGED <<contacts, contact_id_seq, outbox, now, req, resp>>

\* crud.create_user: send_verification_email(...); return db_user
RaceSend(w) ==
    /\ pc[w] = "send"
    /\ outbox' = Append(outbox, <<local[w].email, local[w].code>>)
    /\ local' = [local EXCEPT ![w].resp = ResponseValidationError]
    /\ pc' = [pc EXCEPT ![w] = "done"]
    /\ UNCHANGED <<users, contacts, contact_id_seq, now, req, resp>>

Lookup == \E w \in Workers : RaceLookup(w)
Insert == \E w \in Workers : RaceInsert(w)
Send == \E w \in Workers : RaceSend(w)

NextRace ==
    \/ Lookup
    \/ Insert
    \/ Send

SpecRace == InitRace /\ [][NextRace]_vars

(***************************************************************************)
(* SpecToken: a token is made, by create_access_token with an              *)
(* expires_delta or by POST /token, and verify_token is applied to it as   *)
(* the clock moves on.                                                     *)
(***************************************************************************)
FifteenMinutes == DEFAULT_EXPIRE_MINUTES * TicksPerMinute
ThirtyMinutes == ACCESS_TOKEN_EXPIRE_MINUTES * TicksPerMinute

\* expires_delta: None, timedelta(0), half a second, 1.5 seconds, 30 minutes
Deltas == {<<>>, <<0>>, <<1>>, <<3>>, <<ThirtyMinutes>>}

TokenInstants ==
    {b + j : b \in {0, FifteenMinutes, ThirtyMinutes}, j \in 0..(MaxSkew + 2)}
        \cup {FifteenMinutes - 1, ThirtyMinutes - 1}

\* the users table after ann@x.io has registered with password <<1>>
OneUser == {NewUser(1, "ann@x.io", get_password_hash(<<1>>, 1), "AAAAAA")}

NoVerdict == [ok |-> FALSE, email |-> None]

InitToken ==
    /\ users = OneUser
    /\ contacts = {}
    /\ contact_id_seq = 0
    /\ outbox = << <<"ann@x.io", "AAAAAA">> >>
    /\ now \in {0, 1}
    /\ req = NoReq
    /\ resp = Response(0, "none")
    /\ pc = <<>>
    /\ \E kind \in {"direct", "login"}, sub \in Emails, delta \in Deltas :
          /\ kind = "login" => sub = "ann@x.io" /\ delta = <<ThirtyMinutes>>
          /\ local = [kind |-> kind, sub |-> sub, delta |-> delta, t0 |-> now,
                      token |-> NoToken, verdict |-> NoVerdict, checked_at |-> -1]

\* the token the run is about
TokenUnderTest == IF local.kind = "login" THEN resp.token ELSE local.token

\* create_access_token({"sub": sub}, expires_delta=delta)
TokenCreate ==
    /\ local.kind = "direct"
    /\ local.token = NoToken
    /\ local' = [local EXCEPT
                   !.token = create_access_token([sub |-> local.sub], local.delta, now)]
    /\ UNCHANGED <<users, contacts, contact_id_seq, outbox, now, req, resp, pc>>

\* POST /token with the registered user's credentials
TokenLogin ==
    /\ local.kind = "login"
    /\ req.op = "none"
    /\ login_for_access_token(local.sub, <<1>>)

TokenTick ==
    /\ TokenUnderTest # NoToken
    /\ \E t \in TokenInstants : t > now /\ now' = t
    /\ UNCHANGED <<users, contacts, contact_id_seq, outbox, req, resp, pc, local>>

\* verify_token(token, credentials_exception)
TokenVerify ==
    /\ TokenUnderTest # NoToken
    /\ local' = [local EXCEPT !.verdict = verify_token(TokenUnderTest, now),
                              !.checked_at = now]
    /\ UNCHANGED <<users, contacts, contact_id_seq, outbox, now, req, resp, pc>>

NextToken ==
    \/ TokenCreate
    \/ TokenLogin
    \/ TokenTick
    \/ TokenVerify

SpecToken == InitToken /\ [][NextToken]_vars

(***************************************************************************)
(* SpecPwd: a user registers with password p and then logs in with q.      *)
(***************************************************************************)
InitPwd ==
    /\ users = {}
    /\ contacts = {}
    /\ contact_id_seq = 0
    /\ outbox = <<>>
    /\ now = 0
    /\ req = NoReq
    /\ resp = Response(0, "none")
    /\ pc = <<>>
    /\ local \in [p : Passwords, q : Passwords, salt : Salts]

PwdRegister ==
    /\ req.op = "none"
    /\ create_user("ann@x.io", local.p, local.salt, "AAAAAA", TRUE)

PwdLogin ==
    /\ req.op = "create_user"
    /\ login_for_access_token("ann@x.io", local.q)

NextPwd ==
    \/ PwdRegister
    \/ PwdLogin

SpecPwd == InitPwd /\ [][NextPwd]_vars

(***************************************************************************)
(* The claims.                                                             *)
(***************************************************************************)
ContactOps ==
    {"read_contact", "read_contacts", "update_contact", "delete_contact",
     "get_upcoming_birthdays"}

ProtectedOps == ContactOps \cup {"create_contact", "update_avatar"}

\* the step is the handling of a request (the clock does not move in it)
Handled(op) == req'.op = op /\ now' = now

\* C1: a contact request of the user A named by the token returns only
\* contacts owned by A, leaves every contact of another owner as it is, and
\* read_contact answers 404 'Contact not found' for an id A does not own,
\* whether the id is another user's or nobody's.
C1_PerUserContacts ==
    [][\A op \in ContactOps : Handled(op) =>
          LET A == UserByEmail(users, req'.token.sub).id
          IN /\ \A c \in resp'.contacts : c.owner_id = A
             /\ \A c \in contacts : c.owner_id # A => c \in contacts'
             /\ (/\ op = "read_contact"
                 /\ resp'.status # 401
                 /\ ~\E c \in contacts : c.id = req'.id /\ c.owner_id = A)
                => /\ resp'.status = 404
                   /\ resp'.detail = "Contact not found"
                   /\ resp'.contacts = {}]_vars

\* C1 witness: an authenticated user asked for a contact that exists and
\* belongs to another user, and got 404.
C1_Witness ==
    /\ req.op = "read_contact"
    /\ resp.status = 404
    /\ resp.current_user # 0
    /\ \E c \in contacts : c.id = req.id /\ c.owner_id # resp.current_user

\* C2: POST /users/ with the email of a stored user answers 409 'Email
\* already registered', leaves the users table as it is and sends no email.
C2_DuplicateEmail ==
    [][(Handled("create_user") /\ \E u \in users : u.email = req'.email) =>
          /\ resp' = Response(409, "Email already registered")
          /\ users' = users
          /\ outbox' = outbox]_vars

\* C2 witness: a registration was answered 409.
C2_Witness ==
    /\ req.op = "create_user"
    /\ resp.status = 409
    /\ \E u \in users : u.email = req.email

\* C3 (as claimed): of two finished POST /users/ requests with the same
\* email exactly one created a user and the other was answered 409, and no
\* two users share an email.
C3_Original ==
    /\ \A v, w \in Workers :
          (v # w /\ local[v].email = local[w].email
             /\ pc[v] = "done" /\ pc[w] = "done") =>
          \/ local[v].created /\ ~local[w].created /\ local[w].resp.status = 409
          \/ local[w].created /\ ~local[v].created /\ local[v].resp.status = 409
    /\ \A u, v \in users : u.email = v.email => u = v

\* C4: GET /verify/{code} with a code some user holds sets that user's
\* is_verified to True and verification_code to None and changes nothing
\* else: every other user row, every email and password hash, the contacts
\* and the sent mail stay as they are.
C4_VerifyFrame ==
    [][(Handled("verify_email") /\ \E u \in users : u.verification_code = req'.code) =>
          /\ resp'.status = 200
          /\ Cardinality(users') = Cardinality(users)
          /\ \A u \in users :
                IF u.verification_code = req'.code
                THEN [u EXCEPT !.is_verified = TRUE, !.verification_code = None] \in users'
                ELSE u \in users'
          /\ contacts' = contacts
          /\ outbox' = outbox]_vars

\* C4 witness: a verification succeeded while another user still holds a
\* code and a contact exists.
C4_Witness ==
    /\ req.op = "verify_email"
    /\ resp.status = 200
    /\ \E u \in users : ~u.is_verified /\ u.verification_code # None
    /\ contacts # {}

\* C5: GET /verify/{code} with a code no user holds answers 404 'User not
\* found' and leaves the users as they are; after a successful verification
\* no user holds the code any more; a verified user stays verified.
C5_SingleUse ==
    [][/\ (Handled("verify_email") /\ ~\E u \in users : u.verification_code = req'.code) =>
             /\ resp' = Response(404, "User not found")
             /\ users' = users
       /\ (Handled("verify_email") /\ resp'.status = 200) =>
             \A u \in users' : u.verification_code # req'.code
       /\ \A u \in users : u.is_verified =>
             \E v \in users' : v.id = u.id /\ v.is_verified]_vars

\* C5 witness: a code that was mailed to a user who is now verified was
\* presented again and answered 404.
C5_Witness ==
    /\ req.op = "verify_email"
    /\ resp.status = 404
    /\ \E u \in users :
          /\ u.is_verified
          /\ \E i \in 1..Len(outbox) : outbox[i] = <<u.email, req.code>>

\* C6: POST /token answers with a bearer token whose subject is the
\* submitted email exactly when a stored user has that email and the
\* submitted password verifies against its hash, answers 401 'Incorrect
\* username or password' otherwise, and changes no stored state.
C6_Login ==
    [][Handled("login_for_access_token") =>
          LET good == \E u \in users :
                         /\ u.email = req'.email
                         /\ verify_password(req'.password, u.hashed_password)
          IN /\ good => /\ resp'.status = 200
                        /\ resp'.detail = "bearer"
                        /\ resp'.token.key = SECRET_KEY
                        /\ resp'.token.sub = req'.email
             /\ ~good => resp' = Response(401, "Incorrect username or password")
             /\ users' = users
             /\ contacts' = contacts
             /\ outbox' = outbox]_vars

\* C6 witness: a login for a stored user with a password that does not
\* verify was answered 401.
C6_Witness ==
    /\ req.op = "login_for_access_token"
    /\ resp.status = 401
    /\ \E u \in users : u.email = req.email

\* C7: a contact or avatar request whose token is not signed with the
\* server key, is expired, has no 'sub' or names no stored user is answered
\* 401 'Could not validate credentials' with no table changed; otherwise
\* the acting user is the user whose email is the token's 'sub'.
C7_Authenticated ==
    [][\A op \in ProtectedOps : Handled(op) =>
          LET tok == req'.token
              valid == /\ tok.key = SECRET_KEY
                       /\ tok.exp >= ToSeconds(now)
                       /\ tok.sub # None
                       /\ \E u \in users : u.email = tok.sub
          IN /\ ~valid => /\ resp' = Unauthorized
                          /\ users' = users
                          /\ contacts' = contacts
                          /\ contact_id_seq' = contact_id_seq
             /\ valid => /\ resp'.status # 401
                         /\ \E u \in users : /\ u.email = tok.sub
                                             /\ resp'.current_user = u.id]_vars

\* C7 witness: a token of a stored user, signed with the server key but
\* expired, was presented to POST /contacts/ and answered 401.
C7_Witness ==
    /\ req.op = "create_contact"
    /\ resp = Unauthorized
    /\ req.token.key = SECRET_KEY
    /\ req.token.exp < ToSeconds(now)
    /\ \E u \in users : u.email = req.token.sub

\* the lifetime the claim gives the token of a SpecToken run
ClaimedLifetime ==
    IF local.kind = "login" THEN ThirtyMinutes
    ELSE IF local.delta = <<>> THEN FifteenMinutes
    ELSE local.delta[1]

\* C8 (as claimed): a token made at t0 with lifetime d is accepted with its
\* email at every time before t0 + d and rejected at every time after
\* t0 + d, d being expires_delta, 15 minutes without one, 30 minutes for
\* POST /token.  Times are compared in whole seconds, the resolution of
\* "exp", so that the second in which t0 + d falls decides nothing.
C8_Original ==
    local.checked_at >= 0 =>
        /\ ToSeconds(local.checked_at) < ToSeconds(local.t0 + ClaimedLifetime) =>
              local.verdict.ok /\ local.verdict.email = local.sub
        /\ ToSeconds(local.checked_at) > ToSeconds(local.t0 + ClaimedLifetime) =>
              ~local.verdict.ok

\* the hash stored for the user of a SpecPwd run
StoredHash == UserByEmail(users, "ann@x.io").hashed_password

MonthDay(dt) == <<dt[2], dt[3]>>

\* C10 (as claimed): GET /contacts/upcoming_birthdays/ returns exactly the
\* caller's contacts whose birthday, by month and day, falls on one of the
\* days today .. today + 7.
C10_Original ==
    [][(Handled("get_upcoming_birthdays") /\ resp'.status = 200) =>
          resp'.contacts =
             {c \in contacts :
                 /\ c.owner_id = resp'.current_user
                 /\ \E k \in 0..7 :
                       MonthDay(AddDays(Today(now), k)) = MonthDay(c.birthday)}]_vars

(***************************************************************************)
(* SpecBirthday: two registered users add contacts whose birthdays lie     *)
(* around today, the days pass, and crud.get_upcoming_birthdays is called  *)
(* with several values of days, directly and through the endpoint.         *)
(***************************************************************************)
\* Whole days the clock advances past StartDate.
MaxDays == 2

TwoUsers == OneUser \cup {NewUser(2, "bob@x.io", get_password_hash(<<2>>, 1), "BBBBBB")}

\* the day before StartDate, StartDate, the two days after it, StartDate + 7,
\* StartDate + 8, and a date of an earlier year
BirthdayInputs ==
    {<<2026, 12, 27>>, <<2026, 12, 28>>, <<2026, 12, 29>>, <<2026, 12, 30>>,
     <<2027, 1, 4>>, <<2027, 1, 5>>, <<1990, 12, 30>>}

BirthdayContacts ==
    {ContactData(email, birthday, Unset) :
        email \in {"c1@y.io", "c2@y.io"}, birthday \in BirthdayInputs}

DaysInputs == {0, 1, 7}

\* the token POST /token gives the user at this instant
TokenNow(email) == create_access_token([sub |-> email], <<ThirtyMinutes>>, now)

InitBirthday ==
    /\ users = TwoUsers
    /\ contacts = {}
    /\ contact_id_seq = 0
    /\ outbox = << <<"ann@x.io", "AAAAAA">>, <<"bob@x.io", "BBBBBB">> >>
    /\ now = 0
    /\ req = NoReq
    /\ resp = Response(0, "none")
    /\ pc = <<>>
    /\ local = <<>>

BirthdayCreate ==
    \E email \in Emails, data \in BirthdayContacts :
        create_contact(TokenNow(email), data, FALSE)

\* midnight passes
BirthdayTick ==
    /\ now + TicksPerDay <= MaxDays * TicksPerDay
    /\ now' = now + TicksPerDay
    /\ UNCHANGED <<users, contacts, contact_id_seq, outbox, req, resp, pc, local>>

\* a call crud.get_upcoming_birthdays(db, user_id, days); req and resp hold
\* its arguments and the list it returns
BirthdayQuery ==
    \E user_id \in 1..2, days \in DaysInputs :
        /\ req' = [NoReq EXCEPT !.op = "crud.get_upcoming_birthdays",
                                !.id = user_id, !.days = days]
        /\ resp' = [Response(0, "returned") EXCEPT
                      !.contacts = upcoming_birthdays(contacts, user_id, days, now)]
        /\ UNCHANGED <<users, contacts, contact_id_seq, outbox, now, pc, local>>

BirthdayEndpoint == \E email \in Emails : get_upcoming_birthdays(TokenNow(email))

NextBirthday ==
    \/ BirthdayCreate
    \/ BirthdayTick
    \/ BirthdayQuery
    \/ BirthdayEndpoint

SpecBirthday == InitBirthday /\ [][NextBirthday]_vars

\* days before the first of month m in year y
RECURSIVE DaysBeforeMonth(_, _)
DaysBeforeMonth(y, m) ==
    IF m = 1 THEN 0 ELSE DaysBeforeMonth(y, m - 1) + DaysInMonth(y, m - 1)

\* the number of a date in the proleptic Gregorian calendar (date.toordinal)
Ordinal(dt) ==
    LET y == dt[1] - 1
    IN 365 * y + (y \div 4) - (y \div 100) + (y \div 400)
         + DaysBeforeMonth(dt[1], dt[2]) + dt[3]

\* the contacts of user_id whose birth date lies n days from the date of
\* clock value t, for some n in 0 .. days
InRange(cs, user_id, days, t) ==
    {c \in cs : /\ c.owner_id = user_id
                /\ Ordinal(c.birthday) - Ordinal(StartDate) - (t \div TicksPerDay)
                      \in 0..days}

====
